---- MODULE Spec2Model ----
(***************************************************************************)
(* Model of index_files.py: a coordinator (traverse_parallel), a pool of   *)
(* worker processes (worker_task, using scan_dir), and one writer process  *)
(* (async_writer) connected by a JoinableQueue of directory paths and a    *)
(* bounded Queue of result messages.  The PostgreSQL table file_index is   *)
(* a set of rows.                                                          *)
(***************************************************************************)
EXTENDS Integers, Sequences, FiniteSets, Bags, TLC

\* ------------------------------------------------------------------ bounds

\* Largest worker pool explored (num_workers ranges over 1..MaxWorkers).
MaxWorkers == 2

\* Number of consecutive invocations of traverse_parallel explored.
MaxRuns == 2

\* INSERT_BATCH_SIZE (1000 in the source), scaled down so that both the
\* threshold flush and the final flush happen on the small trees below.
INSERT_BATCH_SIZE == 2

\* maxsize of result_queue (1000 in the source), scaled down so that a
\* publishing worker can find the channel full.
RESULT_MAXSIZE == 2

\* ------------------------------------------------------------ file system

\* The stop sentinel the coordinator enqueues (Python None).
None == "None"

\* The traversal root (root_dir / root_path).
Root == "r"

Entry(n, k, p) == [name |-> n, kind |-> k, path |-> p]

\* An empty root directory.
TreeEmpty == [d \in {"r"} |-> << >>]

\* A chain r -> r/d1 -> r/d1/d2: r/d1/d2 is only discovered after r/d1 is
\* scanned.  r/s is a symbolic link to a directory.
TreeDeep ==
  ( "r"       :> << Entry("a.txt", "file", "r/a.txt"),
                    Entry("s", "symlink_dir", "r/s"),
                    Entry("d1", "dir", "r/d1") >> )
  @@ ( "r/d1"    :> << Entry("a.txt", "file", "r/d1/a.txt"),
                       Entry("b.log", "file", "r/d1/b.log"),
                       Entry("d2", "dir", "r/d1/d2") >> )
  @@ ( "r/d1/d2" :> << Entry("c.txt", "file", "r/d1/d2/c.txt") >> )
  @@ ( "r/s"     :> << Entry("z.txt", "file", "r/s/z.txt") >> )

\* Two sibling directories below the root; r/p is a fifo, r/d3/c.txt a
\* symbolic link to a regular file.
TreeWide ==
  ( "r"    :> << Entry("d1", "dir", "r/d1"),
                 Entry("p", "other", "r/p"),
                 Entry("d3", "dir", "r/d3"),
                 Entry("a.txt", "file", "r/a.txt") >> )
  @@ ( "r/d1" :> << Entry("c.txt", "file", "r/d1/c.txt"),
                    Entry("b.log", "file", "r/d1/b.log") >> )
  @@ ( "r/d3" :> << Entry("a.txt", "file", "r/d3/a.txt"),
                    Entry("c.txt", "symlink_file", "r/d3/c.txt") >> )

\* filename_regex values explored: no pattern, and the pattern [ac].
NoPattern == "NoPattern"
PatAC == "[ac]"

\* The inputs explored: a tree, the directories of it whose listing raises
\* PermissionError / FileNotFoundError, and the configured pattern.
Scenario(f, bad, pat) == [fs |-> f, unreadable |-> bad, filename_regex |-> pat]

Scenarios ==
  { Scenario(TreeEmpty, {}, NoPattern),
    Scenario(TreeDeep, {}, PatAC),
    Scenario(TreeDeep, {"r/d1"}, NoPattern),
    Scenario(TreeWide, {}, PatAC),
    Scenario(TreeWide, {"r/d1"}, NoPattern) }

NoMatch == "NoMatch"

\* re.search(filename_regex, name).group(0) for the pattern [ac]: the first
\* character of the name that is an a or a c; no match otherwise.
ReSearch(pat, name) ==
  IF pat = PatAC
  THEN CASE name = "a.txt" -> "a"
         [] name = "c.txt" -> "c"
         [] OTHER -> NoMatch
  ELSE NoMatch

\* ---------------------------------------------------------------- scan_dir

\* entry.is_file(): follows symbolic links.
IsFile(e) == e.kind \in {"file", "symlink_file"}

\* Variant of IsDir: is_dir() with its default follow_symlinks=True.
IsDirFollow(e) == e.kind \in {"dir", "symlink_dir"}

\* entry.is_dir(follow_symlinks=False).
IsDir(e) == e.kind = "dir"

Record(oid, fname, fpath, rpath) ==
  [object_id |-> oid, filename |-> fname, full_path |-> fpath, root_path |-> rpath]

\* One iteration of the for loop of scan_dir over one entry; acc holds the
\* lists results and subdirs built so far.
ScanEntry(e, root_path, filename_regex, acc) ==
  IF IsFile(e)
  THEN IF filename_regex # NoPattern
       THEN LET extracted == ReSearch(filename_regex, e.name)
            IN  IF extracted # NoMatch
                THEN [acc EXCEPT !.results =
                        Append(@, Record(extracted, e.name, e.path, root_path))]
                ELSE acc
       ELSE [acc EXCEPT !.results =
               Append(@, Record(e.name, e.name, e.path, root_path))]
  ELSE IF IsDir(e)
       THEN [acc EXCEPT !.subdirs = Append(@, e.path)]
       ELSE acc

RECURSIVE ScanEntries(_, _, _, _)
ScanEntries(entries, root_path, filename_regex, acc) ==
  IF entries = << >>
  THEN acc
  ELSE ScanEntries(Tail(entries), root_path, filename_regex,
                   ScanEntry(Head(entries), root_path, filename_regex, acc))

\* os.scandir(dir_path) of the file system f; a path that is no directory
\* of f lists nothing.
Listing(f, dir_path) == IF dir_path \in DOMAIN f THEN f[dir_path] ELSE << >>

\* scan_dir: (results, subdirs); a listing that raises PermissionError or
\* FileNotFoundError yields two empty lists.
ScanDir(f, bad, dir_path, root_path, filename_regex) ==
  IF dir_path \in bad
  THEN [results |-> << >>, subdirs |-> << >>]
  ELSE ScanEntries(Listing(f, dir_path), root_path, filename_regex,
                   [results |-> << >>, subdirs |-> << >>])

\* ------------------------------------------------------------------- state

VARIABLES
  fs,             \* the directory tree being indexed
  unreadable,     \* directories whose listing raises
  filename_regex, \* the configured pattern, or NoPattern
  num_workers,    \* size of the worker pool
  drop_existing,  \* the --drop-existing flag of the current run
  run,            \* number of the current invocation of traverse_parallel
  task_queue,     \* JoinableQueue: items not yet dequeued
  unfinished,     \* JoinableQueue._unfinished_tasks
  result_queue,   \* Queue(maxsize): messages not yet received
  cpc,            \* coordinator: position in traverse_parallel
  sentinels,      \* coordinator: stop sentinels enqueued so far
  wpc,            \* worker w: position in worker_task
  wdir,           \* worker w: dir_path
  wfiles,         \* worker w: files
  wsubs,          \* worker w: subdirs not yet enqueued
  apc,            \* writer: position in async_writer
  buffer,         \* writer: buffer
  table,          \* rows of the table file_index
  scanned,        \* history: directories scanned in this run
  published,      \* history: directories whose 'files' message was put
  enqueued,       \* history: directories put on task_queue in this run
  prev_table,     \* history: the table when the previous run returned
  scan_count,     \* history: times each directory was dequeued in this run
  msg_count,      \* history: 'files' messages put for each directory
  received,       \* history: bag of records the writer received in this run
  inserted        \* history: bag of records passed to executemany

vars ==
  << fs, unreadable, filename_regex, num_workers, drop_existing, run,
     task_queue, unfinished, result_queue, cpc, sentinels,
     wpc, wdir, wfiles, wsubs, apc, buffer, table,
     scanned, published, enqueued, prev_table,
     scan_count, msg_count, received, inserted >>

inputVars == << fs, unreadable, filename_regex, num_workers >>
workerVars == << wpc, wdir, wfiles, wsubs >>
writerVars == << apc, buffer, table >>
histVars == << scanned, published, enqueued, prev_table >>
countVars == << scan_count, msg_count >>
flushVars == << received, inserted >>

Workers == 1..num_workers
AllWorkers == 1..MaxWorkers

FilesMsg(data) == [type |-> "files", data |-> data]
DoneMsg == [type |-> "done", data |-> << >>]

Init ==
  /\ \E s \in Scenarios :
       /\ fs = s.fs
       /\ unreadable = s.unreadable
       /\ filename_regex = s.filename_regex
  /\ num_workers \in 1..MaxWorkers
  /\ drop_existing = FALSE  \* no table exists yet: the flag has no effect
  /\ run = 1
  /\ task_queue = << >>
  /\ unfinished = 0
  /\ result_queue = << >>
  /\ cpc = "put_root"
  /\ sentinels = 0
  /\ wpc = [w \in AllWorkers |-> "idle"]
  /\ wdir = [w \in AllWorkers |-> None]
  /\ wfiles = [w \in AllWorkers |-> << >>]
  /\ wsubs = [w \in AllWorkers |-> << >>]
  /\ apc = "idle"
  /\ buffer = << >>
  /\ table = {}
  /\ scanned = {}
  /\ published = {}
  /\ enqueued = {}
  /\ prev_table = {}
  /\ scan_count = [d \in DOMAIN fs |-> 0]
  /\ msg_count = [d \in DOMAIN fs |-> 0]
  /\ received = EmptyBag
  /\ inserted = EmptyBag

\* ------------------------------------------------------------- worker_task

\* task_queue.get(timeout=5) returns an item: the stop sentinel leads to
\* break (and the finally clause); a directory is scanned.
WorkerGet(w) ==
  /\ wpc[w] = "get"
  /\ task_queue # << >>
  /\ LET dir_path == Head(task_queue)
         res == ScanDir(fs, unreadable, dir_path, Root, filename_regex)
     IN  /\ task_queue' = Tail(task_queue)
         /\ wdir' = [wdir EXCEPT ![w] = dir_path]
         /\ IF dir_path = None
            THEN /\ wpc' = [wpc EXCEPT ![w] = "break"]
                 /\ UNCHANGED << wfiles, wsubs, scanned, scan_count >>
            ELSE /\ wpc' = [wpc EXCEPT ![w] = "put_files"]
                 /\ wfiles' = [wfiles EXCEPT ![w] = res.results]
                 /\ wsubs' = [wsubs EXCEPT ![w] = res.subdirs]
                 /\ scanned' = scanned \cup {dir_path}
                 /\ scan_count' = [scan_count EXCEPT ![dir_path] = @ + 1]
  /\ UNCHANGED << inputVars, drop_existing, run, unfinished, result_queue,
                  cpc, sentinels, writerVars, published, enqueued, prev_table,
                  msg_count, flushVars >>

\* task_queue.get(timeout=5) raises Empty: continue, through the finally
\* clause.
WorkerTimeout(w) ==
  /\ wpc[w] = "get"
  /\ task_queue = << >>
  /\ wpc' = [wpc EXCEPT ![w] = "continue"]
  /\ UNCHANGED << inputVars, drop_existing, run, task_queue, unfinished,
                  result_queue, cpc, sentinels, wdir, wfiles, wsubs,
                  writerVars, histVars,
                  countVars, flushVars >>

\* Variant of AfterPutFiles: the loop that enqueues the subdirectories is
\* skipped.
AfterPutFilesSkip(subdirs) == "task_done"

\* Where the worker goes after result_queue.put(('files', files)).
AfterPutFiles(subdirs) == IF subdirs = << >> THEN "task_done" ELSE "put_subs"

\* Variant of HasRoom: the channel is unbounded.
HasRoomAlways(q) == TRUE

\* Queue(maxsize=1000).put proceeds only while the channel holds fewer
\* than maxsize messages; otherwise the caller blocks.
HasRoom(q) == Len(q) < RESULT_MAXSIZE

\* result_queue.put(('files', files)): blocks while the channel is full.
WorkerPutFiles(w) ==
  /\ wpc[w] = "put_files"
  /\ HasRoom(result_queue)
  /\ result_queue' = Append(result_queue, FilesMsg(wfiles[w]))
  /\ wfiles' = [wfiles EXCEPT ![w] = << >>]
  /\ published' = published \cup {wdir[w]}
  /\ msg_count' = [msg_count EXCEPT ![wdir[w]] = @ + 1]
  /\ wpc' = [wpc EXCEPT ![w] = AfterPutFiles(wsubs[w])]
  /\ UNCHANGED << inputVars, drop_existing, run, task_queue, unfinished,
                  cpc, sentinels, wdir, wsubs, writerVars,
                  scanned, enqueued, prev_table,
                  scan_count, flushVars >>

\* One iteration of `for sub in subdirs: task_queue.put(sub)`.
WorkerPutSub(w) ==
  /\ wpc[w] = "put_subs"
  /\ task_queue' = Append(task_queue, Head(wsubs[w]))
  /\ unfinished' = unfinished + 1
  /\ enqueued' = enqueued \cup {Head(wsubs[w])}
  /\ wsubs' = [wsubs EXCEPT ![w] = Tail(@)]
  /\ wpc' = [wpc EXCEPT ![w] = IF Tail(wsubs[w]) = << >> THEN "task_done" ELSE "put_subs"]
  /\ UNCHANGED << inputVars, drop_existing, run, result_queue, cpc, sentinels,
                  wdir, wfiles, writerVars, scanned, published, prev_table,
                  countVars, flushVars >>

\* The position of a worker after the finally clause returned normally.
AfterFinally(pc) == IF pc = "break" THEN "exited" ELSE "get"

\* Variant of Notify: the wake-up of the process waiting in join() is lost.
NotifyLost(count, pc) == pc

\* The notification of task_done: when the count of unfinished tasks (count,
\* before the decrement) reaches zero, the process waiting in join() wakes.
Notify(count, pc) == IF count = 1 /\ pc = "join_wait" THEN "sentinels" ELSE pc

\* The finally clause: task_queue.task_done().  It runs after a scanned
\* directory ("task_done"), after break ("break") and after continue
\* ("continue").  JoinableQueue.task_done raises ValueError when the count
\* of unfinished tasks is zero, which ends the worker process; when the
\* count reaches zero it wakes the process waiting in join().
WorkerTaskDone(w) ==
  /\ wpc[w] \in {"task_done", "break", "continue"}
  /\ IF unfinished = 0
     THEN /\ wpc' = [wpc EXCEPT ![w] = "crashed"]
          /\ UNCHANGED << unfinished, cpc >>
     ELSE /\ unfinished' = unfinished - 1
          /\ wpc' = [wpc EXCEPT ![w] = AfterFinally(wpc[w])]
          /\ cpc' = Notify(unfinished, cpc)
  /\ wdir' = [wdir EXCEPT ![w] = None]
  /\ UNCHANGED << inputVars, drop_existing, run, task_queue, result_queue,
                  sentinels, wfiles, wsubs, writerVars, histVars,
                  countVars, flushVars >>

WorkerNext(w) ==
  \/ WorkerGet(w)
  \/ WorkerTimeout(w)
  \/ WorkerPutFiles(w)
  \/ WorkerPutSub(w)
  \/ WorkerTaskDone(w)

\* ------------------------------------------------------------ async_writer

\* Variant of InsertRow: a plain INSERT into a table without the primary
\* key.
InsertRowNoConflict(t, r) == t \cup {r}

\* Variant of InsertRow: ON CONFLICT (object_id) DO UPDATE.
InsertRowUpsert(t, r) == {x \in t : x.object_id # r.object_id} \cup {r}

\* INSERT ... ON CONFLICT (object_id) DO NOTHING of one row into the table
\* whose primary key is object_id.
InsertRow(t, r) ==
  IF \E x \in t : x.object_id = r.object_id THEN t ELSE t \cup {r}

\* conn.executemany(insert_query, rows): the rows are inserted in order.
RECURSIVE ExecuteMany(_, _)
ExecuteMany(t, rows) ==
  IF rows = << >> THEN t ELSE ExecuteMany(InsertRow(t, Head(rows)), Tail(rows))

\* Variant of PrepareTable: the drop is never executed.
PrepareTableKeep(t, drop) == t

\* prepare_table: DROP TABLE IF EXISTS when drop_existing, then CREATE TABLE
\* IF NOT EXISTS.
PrepareTable(t, drop) == IF drop THEN {} ELSE t

\* asyncpg.connect succeeds, then prepare_table runs.
WriterConnect ==
  /\ apc = "connect"
  /\ table' = PrepareTable(table, drop_existing)
  /\ apc' = "loop"
  /\ UNCHANGED << inputVars, drop_existing, run, task_queue, unfinished,
                  result_queue, cpc, sentinels, workerVars, buffer, histVars,
                  countVars, flushVars >>

\* asyncpg.connect raises: the writer process ends with the exception.
WriterConnectFails ==
  /\ apc = "connect"
  /\ apc' = "failed"
  /\ UNCHANGED << inputVars, drop_existing, run, task_queue, unfinished,
                  result_queue, cpc, sentinels, workerVars, buffer, table, histVars,
                  countVars, flushVars >>

\* Variant of BatchFull: the flush waits until the buffer exceeds the
\* threshold.
BatchFullLate(buf) == Len(buf) > INSERT_BATCH_SIZE

\* The flush condition of the 'files' branch.
BatchFull(buf) == Len(buf) >= INSERT_BATCH_SIZE

\* Variant of BufferAfterFlush: the buffer is not cleared.
BufferKept(buf) == buf

\* buffer.clear() after the bulk insert.
BufferAfterFlush(buf) == << >>

\* The records of a sequence as a bag.
BagOf(rows) ==
  [r \in {rows[i] : i \in DOMAIN rows} |->
     Cardinality({i \in DOMAIN rows : rows[i] = r})]

\* result_queue.get returns a message.  'done' leaves the loop; 'files'
\* extends the buffer and, at the threshold, bulk-inserts and clears it.
WriterReceive ==
  /\ apc = "loop"
  /\ result_queue # << >>
  /\ LET msg == Head(result_queue)
         extended == buffer \o msg.data
     IN  /\ result_queue' = Tail(result_queue)
         /\ IF msg.type = "done"
            THEN /\ apc' = "final"
                 /\ UNCHANGED << buffer, table, flushVars >>
            ELSE /\ received' = received (+) BagOf(msg.data)
                 /\ IF BatchFull(extended)
                    THEN /\ table' = ExecuteMany(table, extended)
                         /\ inserted' = inserted (+) BagOf(extended)
                         /\ buffer' = BufferAfterFlush(extended)
                         /\ apc' = "loop"
                    ELSE /\ buffer' = extended
                         /\ UNCHANGED << apc, table, inserted >>
  /\ UNCHANGED << inputVars, drop_existing, run, task_queue, unfinished,
                  cpc, sentinels, workerVars, histVars, countVars >>

\* result_queue.get(True, 10) raises Empty: continue.  Nothing changes and
\* the loop waits again.
WriterTimeout ==
  /\ apc = "loop"
  /\ result_queue = << >>
  /\ UNCHANGED vars

\* As WriterReceive for a 'files' message that reaches the threshold, but
\* conn.executemany raises: the writer process ends with the exception and
\* the bulk insert leaves no row.
WriterReceiveFlushFails ==
  /\ apc = "loop"
  /\ result_queue # << >>
  /\ Head(result_queue).type = "files"
  /\ BatchFull(buffer \o Head(result_queue).data)
  /\ result_queue' = Tail(result_queue)
  /\ buffer' = buffer \o Head(result_queue).data
  /\ received' = received (+) BagOf(Head(result_queue).data)
  /\ apc' = "failed"
  /\ UNCHANGED << inputVars, drop_existing, run, task_queue, unfinished,
                  cpc, sentinels, workerVars, table, histVars,
                  countVars, inserted >>

\* After the loop: `if buffer:` bulk-insert the rest; conn.close(); return.
WriterFinal ==
  /\ apc = "final"
  /\ table' = IF buffer # << >> THEN ExecuteMany(table, buffer) ELSE table
  /\ inserted' = inserted (+) BagOf(buffer)
  /\ buffer' = buffer
  /\ apc' = "exited"
  /\ UNCHANGED << inputVars, drop_existing, run, task_queue, unfinished,
                  result_queue, cpc, sentinels, workerVars, histVars,
                  countVars, received >>

\* The final conn.executemany raises.
WriterFinalFails ==
  /\ apc = "final"
  /\ buffer # << >>
  /\ apc' = "failed"
  /\ UNCHANGED << inputVars, drop_existing, run, task_queue, unfinished,
                  result_queue, cpc, sentinels, workerVars, buffer, table, histVars,
                  countVars, flushVars >>

WriterNext ==
  \/ WriterConnect
  \/ WriterConnectFails
  \/ WriterReceive
  \/ WriterTimeout
  \/ WriterReceiveFlushFails
  \/ WriterFinal
  \/ WriterFinalFails

\* -------------------------------------------------------- traverse_parallel

\* Variant of WorkerEnded: the join of a worker returns once it has started.
WorkerEndedEarly(w) == wpc[w] # "idle"

\* w.join() returns: the worker process has ended, by return or by an
\* uncaught exception.
WorkerEnded(w) == wpc[w] \in {"exited", "crashed"}

\* Variant of WriterEnded: writer.join() does not wait.
WriterEndedEarly == TRUE

\* writer.join() returns: the writer process has ended.
WriterEnded == apc \in {"exited", "failed"}

\* task_queue.put(root_dir)
CoordPutRoot ==
  /\ cpc = "put_root"
  /\ task_queue' = Append(task_queue, Root)
  /\ unfinished' = unfinished + 1
  /\ enqueued' = enqueued \cup {Root}
  /\ cpc' = "start_writer"
  /\ UNCHANGED << inputVars, drop_existing, run, result_queue, sentinels,
                  workerVars, writerVars, scanned, published, prev_table,
                  countVars, flushVars >>

\* writer.start()
CoordStartWriter ==
  /\ cpc = "start_writer"
  /\ apc' = "connect"
  /\ cpc' = "start_workers"
  /\ UNCHANGED << inputVars, drop_existing, run, task_queue, unfinished,
                  result_queue, sentinels, workerVars, buffer, table, histVars,
                  countVars, flushVars >>

\* for w in workers: w.start()
CoordStartWorkers ==
  /\ cpc = "start_workers"
  /\ wpc' = [w \in AllWorkers |-> IF w \in Workers THEN "get" ELSE wpc[w]]
  /\ cpc' = "join"
  /\ UNCHANGED << inputVars, drop_existing, run, task_queue, unfinished,
                  result_queue, sentinels, wdir, wfiles, wsubs, writerVars, histVars,
                  countVars, flushVars >>

\* task_queue.join(): returns at once when no task is unfinished, else
\* waits for the notification task_done sends when the count reaches zero.
CoordJoin ==
  /\ cpc = "join"
  /\ cpc' = IF unfinished = 0 THEN "sentinels" ELSE "join_wait"
  /\ UNCHANGED << inputVars, drop_existing, run, task_queue, unfinished,
                  result_queue, sentinels, workerVars, writerVars, histVars,
                  countVars, flushVars >>

\* One iteration of `for _ in workers: task_queue.put(None)`.
CoordPutSentinel ==
  /\ cpc = "sentinels"
  /\ sentinels < num_workers
  /\ task_queue' = Append(task_queue, None)
  /\ unfinished' = unfinished + 1
  /\ sentinels' = sentinels + 1
  /\ cpc' = IF sentinels + 1 = num_workers THEN "join_workers" ELSE "sentinels"
  /\ UNCHANGED << inputVars, drop_existing, run, result_queue,
                  workerVars, writerVars, histVars,
                  countVars, flushVars >>

\* for w in workers: w.join()
CoordJoinWorkers ==
  /\ cpc = "join_workers"
  /\ \A w \in Workers : WorkerEnded(w)
  /\ cpc' = "put_done"
  /\ UNCHANGED << inputVars, drop_existing, run, task_queue, unfinished,
                  result_queue, sentinels, workerVars, writerVars, histVars,
                  countVars, flushVars >>

\* result_queue.put(('done', None)): blocks while the channel is full.
CoordPutDone ==
  /\ cpc = "put_done"
  /\ HasRoom(result_queue)
  /\ result_queue' = Append(result_queue, DoneMsg)
  /\ cpc' = "join_writer"
  /\ UNCHANGED << inputVars, drop_existing, run, task_queue, unfinished,
                  sentinels, workerVars, writerVars, histVars,
                  countVars, flushVars >>

\* writer.join(), then traverse_parallel returns; the exit code of the
\* writer process is not looked at.
CoordJoinWriter ==
  /\ cpc = "join_writer"
  /\ WriterEnded
  /\ cpc' = "returned"
  /\ UNCHANGED << inputVars, drop_existing, run, task_queue, unfinished,
                  result_queue, sentinels, workerVars, writerVars, histVars,
                  countVars, flushVars >>

\* After a run whose writer returned normally, main() is run again on the
\* unchanged tree: new queues, new processes, the same database.
NextRun ==
  /\ cpc = "returned"
  /\ apc = "exited"
  /\ run < MaxRuns
  /\ run' = run + 1
  /\ drop_existing' \in BOOLEAN
  /\ task_queue' = << >>
  /\ unfinished' = 0
  /\ result_queue' = << >>
  /\ cpc' = "put_root"
  /\ sentinels' = 0
  /\ wpc' = [w \in AllWorkers |-> "idle"]
  /\ wdir' = [w \in AllWorkers |-> None]
  /\ wfiles' = [w \in AllWorkers |-> << >>]
  /\ wsubs' = [w \in AllWorkers |-> << >>]
  /\ apc' = "idle"
  /\ buffer' = << >>
  /\ scanned' = {}
  /\ published' = {}
  /\ enqueued' = {}
  /\ prev_table' = table
  /\ scan_count' = [d \in DOMAIN fs |-> 0]
  /\ msg_count' = [d \in DOMAIN fs |-> 0]
  /\ received' = EmptyBag
  /\ inserted' = EmptyBag
  /\ UNCHANGED << inputVars, table >>

CoordNext ==
  \/ CoordPutRoot
  \/ CoordStartWriter
  \/ CoordStartWorkers
  \/ CoordJoin
  \/ CoordPutSentinel
  \/ CoordJoinWorkers
  \/ CoordPutDone
  \/ CoordJoinWriter

\* One invocation of traverse_parallel.
Next ==
  \/ CoordNext
  \/ \E w \in Workers : WorkerNext(w)
  \/ WriterNext

Spec == Init /\ [][Next]_vars

\* Successive invocations against the same tree and the same database.
NextRerun ==
  \/ CoordNext
  \/ \E w \in Workers : WorkerNext(w)
  \/ WriterNext
  \/ NextRun

SpecRerun == Init /\ [][NextRerun]_vars

\* Every process that can take a step eventually takes one: the processes
\* are scheduled by the operating system, and a blocking get with a timeout
\* returns or raises Empty.
Fairness ==
  /\ WF_vars(CoordNext)
  /\ WF_vars(WriterNext)
  /\ \A w \in AllWorkers : WF_vars(w \in Workers /\ WorkerNext(w))

LiveSpec == Init /\ [][Next]_vars /\ Fairness

\* ------------------------------------------------------- reference notions

Range(q) == {q[i] : i \in 1..Len(q)}

Readable(d) == d \in DOMAIN fs /\ d \notin unreadable

\* The direct subdirectories of d that a listing of d shows (not symbolic
\* links); none when d cannot be listed.
ChildDirs(d) ==
  IF Readable(d) THEN {e.path : e \in {x \in Range(fs[d]) : x.kind = "dir"}} ELSE {}

\* An independent walk of the tree from the root.
RECURSIVE Walk(_)
Walk(d) == {d} \cup UNION {Walk(c) : c \in ChildDirs(d)}

TreeDirs == Walk(Root)

\* The direct file entries of d (regular files and links to them).
FileEntries(d) ==
  IF Readable(d)
  THEN {e \in Range(fs[d]) : e.kind = "file" \/ e.kind = "symlink_file"}
  ELSE {}

\* The identifier the configuration derives from a file name, or NoMatch.
ObjectIdOf(name) ==
  IF filename_regex = NoPattern THEN name ELSE ReSearch(filename_regex, name)

\* The identifiers derivable from the matching files of directory d.
IdsOf(d) == {ObjectIdOf(e.name) : e \in FileEntries(d)} \ {NoMatch}

Keys(t) == {r.object_id : r \in t}

\* Positions of a worker between dequeuing a directory and task_done.
Processing(w) == wpc[w] \in {"put_files", "put_subs", "task_done"}

JoinReturned ==
  cpc \in {"sentinels", "join_workers", "put_done", "join_writer", "returned"}

\* traverse_parallel returned and the writer returned normally.
RunSucceeded == cpc = "returned" /\ apc = "exited"

\* ------------------------------------------------------------------ claims

\* C1: task_queue.join() does not return while a directory of the tree is
\* still queued, is being scanned, has subdirectories not yet enqueued, or
\* has not been visited.
JoinBarrierSafe ==
  JoinReturned =>
    /\ \A d \in TreeDirs : d \in scanned
    /\ \A i \in 1..Len(task_queue) : task_queue[i] = None
    /\ \A w \in Workers : ~Processing(w)

\* C2: when a run that started from an empty table has finished and every
\* flush succeeded, the keys of the index are exactly the identifiers
\* derivable from the matching files of every directory of the tree, for
\* every pool size.
Completeness ==
  (RunSucceeded /\ run = 1) =>
    Keys(table) = UNION {IdsOf(d) : d \in TreeDirs}

RunEnded ==
  /\ RunSucceeded
  /\ \A w \in Workers : WorkerEnded(w)

ScannedIds == UNION {IdsOf(d) : d \in scanned}

\* C4: the table never holds two rows with the same object_id, and after a
\* run whose writer returned normally every object_id of a scanned file has
\* exactly one row, also when files of different directories share it.
UniqueObjectId ==
  /\ \A r1, r2 \in table : r1.object_id = r2.object_id => r1 = r2
  /\ RunSucceeded =>
       \A id \in ScannedIds : Cardinality({r \in table : r.object_id = id}) = 1

UniqueObjectIdWitness ==
  /\ RunSucceeded
  /\ \E d1, d2 \in scanned :
       /\ d1 # d2
       /\ \E id \in IdsOf(d1) \cap IdsOf(d2) :
            Cardinality({r \in table : r.object_id = id}) = 1

IsDrop == apc = "connect" /\ apc' = "loop" /\ drop_existing

ThresholdFlush ==
  /\ apc = "loop"
  /\ apc' = "loop"
  /\ result_queue # << >>
  /\ result_queue' = Tail(result_queue)
  /\ Head(result_queue).type = "files"
  /\ Len(buffer \o Head(result_queue).data) >= INSERT_BATCH_SIZE

FinalFlush == apc = "final" /\ apc' = "exited"

FirstWriteWinsStep ==
  /\ ~IsDrop => table \subseteq table'
  /\ ThresholdFlush =>
       Keys(table') = Keys(table) \cup Keys(Range(buffer \o Head(result_queue).data))
  /\ FinalFlush => Keys(table') = Keys(table) \cup Keys(Range(buffer))

\* C5: a row of the table stays as it is through every step except the
\* drop of prepare_table under drop_existing; a successful bulk insert adds
\* a row for exactly the keys of its records that had none, dropping the
\* others without an error.
FirstWriteWins == [][FirstWriteWinsStep]_vars

\* A later run without drop_existing has flushed a record whose object_id
\* had a row before the run.
FirstWriteWinsWitness ==
  /\ run = 2
  /\ ~drop_existing
  /\ apc = "exited"
  /\ \E r \in prev_table : \E d \in published :
       /\ r.object_id \in IdsOf(d)
       /\ r \in table
       /\ r.full_path \notin {e.path : e \in FileEntries(d)}

\* C6: a second run without drop_existing on the unchanged tree, after a
\* first run that succeeded, leaves the table as the first run left it.
Idempotent ==
  (RunSucceeded /\ run = 2 /\ ~drop_existing) => table = prev_table

Parent(d) == {p \in DOMAIN fs : d \in {e.path : e \in {x \in Range(fs[p]) : x.kind = "dir"}}}

RECURSIVE Ancestors(_)
Ancestors(d) == Parent(d) \cup UNION {Ancestors(p) : p \in Parent(d)}

Siblings(d) ==
  UNION { {e.path : e \in {x \in Range(fs[p]) : x.kind = "dir"}} : p \in Parent(d) } \ {d}

FailedListings == scanned \cap unreadable

FaultSwallowed ==
  \A w \in Workers :
    (Processing(w) /\ wdir[w] \in unreadable) =>
       /\ wsubs[w] = << >>
       /\ wpc[w] \in {"put_files", "task_done"}

\* C7: when the listing of a directory has failed, the worker has published
\* and marked the task done, the directory has contributed no subdirectory,
\* and after the run the matching files of its siblings and ancestors are in
\* the index.
FaultIsolation ==
  /\ FaultSwallowed
  /\ RunSucceeded =>
       \A d \in FailedListings :
         /\ d \in published
         /\ \A o \in Siblings(d) \cup Ancestors(d) : IdsOf(o) \subseteq Keys(table)

\* C8: after a failure of the writer's connection or of a bulk insert,
\* traverse_parallel does not return normally.
StorageFailureFatal == apc = "failed" => cpc # "returned"

ScanResultOf(w) ==
  LET d == wdir[w]
      entries == fs[d]
      accepted == {i \in 1..Len(entries) :
                     /\ entries[i].kind \in {"file", "symlink_file"}
                     /\ ObjectIdOf(entries[i].name) # NoMatch}
      dirs == {i \in 1..Len(entries) : entries[i].kind = "dir"}
  IN  /\ Len(wfiles[w]) = Cardinality(accepted)
      /\ \A i \in accepted :
           \E k \in 1..Len(wfiles[w]) :
             wfiles[w][k] = [object_id |-> ObjectIdOf(entries[i].name),
                             filename |-> entries[i].name,
                             full_path |-> entries[i].path,
                             root_path |-> Root]
      /\ filename_regex = NoPattern =>
           \A k \in 1..Len(wfiles[w]) : wfiles[w][k].object_id = wfiles[w][k].filename
      /\ Len(wsubs[w]) = Cardinality(dirs)
      /\ Range(wsubs[w]) = {entries[i].path : i \in dirs}

\* C9: scan_dir returns one record per direct file entry the extractor
\* accepts (every file entry when no pattern is configured), with the
\* extracted object_id, and exactly the direct subdirectories that are not
\* symbolic links.
ScannerResult ==
  \A w \in Workers :
    (wpc[w] = "put_files" /\ Readable(wdir[w])) => ScanResultOf(w)

\* A scan of a directory that holds both a symbolic link to a directory and
\* a file the pattern rejects or accepts.
ScannerResultWitness ==
  \E w \in Workers :
    /\ wpc[w] = "put_files"
    /\ wdir[w] = Root
    /\ fs = TreeDeep
    /\ filename_regex = PatAC
    /\ Len(wfiles[w]) = 1
    /\ wsubs[w] = << "r/d1" >>

TaskSubdirs(w) == ChildDirs(wdir[w])

\* C10: a worker publishes the 'files' message of a task before it enqueues
\* a subdirectory of the task, and marks the task done only after every
\* subdirectory of the task is on the task queue.
WorkerStepOrder ==
  \A w \in Workers :
    /\ wpc[w] = "put_files" => TaskSubdirs(w) \cap enqueued = {}
    /\ wpc[w] = "put_subs" => wdir[w] \in published
    /\ wpc[w] = "task_done" =>
         /\ wdir[w] \in published
         /\ TaskSubdirs(w) \subseteq enqueued

WorkerStepOrderWitness ==
  \E w \in Workers :
    /\ wpc[w] = "task_done"
    /\ wdir[w] = Root
    /\ fs = TreeWide
    /\ {"r/d1", "r/d3"} \subseteq enqueued

\* Items on the task queue or dequeued by a worker whose task_done is still
\* to come.
OpenItems ==
  Len(task_queue) +
    Cardinality({w \in Workers :
                   wpc[w] \in {"put_files", "put_subs", "task_done", "break"}})

\* C11: a worker calls task_done once for each item it dequeued and never
\* otherwise, a dequeue that times out leaves the count of unfinished tasks
\* unchanged, and so the count of unfinished tasks always equals the number
\* of items enqueued and not yet completely processed.
UnfinishedMatches == unfinished = OpenItems

SentinelQueued == \E i \in 1..Len(task_queue) : task_queue[i] = None

DoneQueued == \E i \in 1..Len(result_queue) : result_queue[i].type = "done"

AllWorkersGone == \A w \in Workers : wpc[w] \in {"exited", "crashed"}

\* C12: the coordinator enqueues the stop sentinels, exactly one per
\* worker, only after task_queue.join() returned; it sends 'done' only
\* after every worker process has ended; it returns only after the writer
\* process has ended; no step is skipped, also for an empty tree.
ShutdownOrder ==
  /\ (sentinels > 0 \/ SentinelQueued) => JoinReturned
  /\ sentinels <= num_workers
  /\ cpc \in {"join_workers", "put_done", "join_writer", "returned"} =>
       sentinels = num_workers
  /\ cpc \in {"put_root", "start_writer", "start_workers", "join",
              "join_wait"} => sentinels = 0
  /\ (DoneQueued \/ apc \in {"final", "exited"}) =>
       cpc \in {"join_writer", "returned"}
  /\ cpc \in {"join_writer", "returned"} =>
       (DoneQueued \/ apc \in {"final", "exited", "failed"})
  /\ cpc \in {"put_done", "join_writer", "returned"} => AllWorkersGone
  /\ cpc = "returned" => apc \in {"exited", "failed"}

ShutdownOrderWitness ==
  /\ fs = TreeEmpty
  /\ cpc = "returned"
  /\ apc = "exited"
  /\ sentinels = num_workers
  /\ num_workers = MaxWorkers

\* C13: a worker process ends only by dequeuing a stop sentinel, never by
\* an error raised in its loop, and no worker ends while a directory is
\* still on the task queue or being processed by some worker.
WorkerExitSafe ==
  \A w \in Workers :
    /\ wpc[w] # "crashed"
    /\ wpc[w] = "exited" =>
         /\ \A i \in 1..Len(task_queue) : task_queue[i] = None
         /\ \A v \in Workers : ~Processing(v)

\* C19: no worker calls task_done while the count of unfinished tasks is
\* zero, so task_done never raises and the count never underflows.
NoUnderflow ==
  /\ unfinished >= 0
  /\ \A w \in Workers :
       wpc[w] \in {"task_done", "break", "continue"} => unfinished > 0

\* C20: 'done' is the last message of the result channel: no worker puts a
\* 'files' message after it, there is a single 'done', and the writer has
\* received every published 'files' message when it leaves its loop and
\* when it returns.
DoneIsLast ==
  /\ \A i \in 1..Len(result_queue) :
       result_queue[i].type = "done" => i = Len(result_queue)
  /\ DoneQueued => AllWorkersGone
  /\ apc \in {"final", "exited"} =>
       /\ result_queue = << >>
       /\ AllWorkersGone

DoneIsLastWitness ==
  /\ apc = "final"
  /\ fs = TreeDeep
  /\ Cardinality(published) >= 2
  /\ buffer # << >>

\* C14: each directory placed on the task queue is dequeued by exactly one
\* worker, so that every directory is scanned exactly once, and exactly one
\* 'files' message is published per scanned directory, also when its
\* record list is empty.
ExactlyOnce ==
  /\ \A d \in DOMAIN fs :
       /\ scan_count[d] <= 1
       /\ msg_count[d] <= scan_count[d]
  /\ RunSucceeded =>
       \A d \in enqueued : scan_count[d] = 1 /\ msg_count[d] = 1

\* Every record received is either in the buffer or was passed to one bulk
\* insert; after the final flush every record received was passed to one.
NothingLost ==
  /\ inserted \sqsubseteq received
  /\ apc \in {"loop", "final"} => received = inserted (+) BagOf(buffer)
  /\ apc = "exited" => received = inserted

\* A step taken while the writer waits on the empty channel leaves the
\* buffer, the table and the writer's position as they are.
TimeoutKeeps ==
  (apc = "loop" /\ result_queue = << >>) =>
     /\ UNCHANGED << writerVars, flushVars >>

\* C15: every record of a 'files' message the writer receives before 'done'
\* is passed to a bulk insert exactly once, by a threshold flush or by the
\* final flush; when the writer returns no received record is unflushed;
\* a receive timeout on the empty channel neither flushes, drops nor ends
\* the writer.
WriterLosesNothing == []NothingLost /\ [][TimeoutKeeps]_vars

WriterLosesNothingWitness ==
  /\ apc = "exited"
  /\ BagCardinality(inserted) = 3
  /\ buffer # << >>
  /\ Cardinality(table) = 2

\* The buffer is below the threshold whenever the writer is between two
\* messages, at the final flush or has returned.
BufferBelowThreshold ==
  apc \in {"loop", "final", "exited"} => Len(buffer) < INSERT_BATCH_SIZE

\* The step that handles a 'files' message: a bulk insert of the whole
\* extended buffer is issued exactly when its length has reached the
\* threshold, and a bulk insert that succeeded is followed by the clear.
BatchStep ==
  (/\ apc = "loop"
   /\ result_queue # << >>
   /\ Head(result_queue).type = "files"
   /\ result_queue' = Tail(result_queue)) =>
    LET extended == buffer \o Head(result_queue).data
    IN  /\ Len(extended) >= INSERT_BATCH_SIZE =>
             \/ /\ apc' = "loop"
                /\ inserted' = inserted (+) BagOf(extended)
                /\ buffer' = << >>
             \/ apc' = "failed"
        /\ Len(extended) < INSERT_BATCH_SIZE =>
             /\ apc' = "loop"
             /\ inserted' = inserted
             /\ table' = table
             /\ buffer' = extended

\* C16: while handling a 'files' message the writer issues one bulk insert
\* of the whole buffer and then clears it if and only if the length of the
\* buffer after appending the message's records is at least the batch
\* threshold; so after every handled message the buffer holds fewer
\* records than the threshold.
BatchThreshold == []BufferBelowThreshold /\ [][BatchStep]_vars

BatchThresholdWitness ==
  /\ apc = "loop"
  /\ buffer = << >>
  /\ BagCardinality(inserted) = 3
  /\ Cardinality(published) = 2

\* The result channel never holds more messages than its capacity.
ChannelBounded == Len(result_queue) <= RESULT_MAXSIZE

\* A step changes the channel only by a put at its tail while there is
\* room, or by the writer's receive at its head; a worker that stands at
\* its put while the channel is full does not move.
ChannelStep ==
  /\ \/ result_queue' = result_queue
     \/ /\ Len(result_queue) < RESULT_MAXSIZE
        /\ \E w \in Workers :
             result_queue' = Append(result_queue, FilesMsg(wfiles[w]))
     \/ /\ Len(result_queue) < RESULT_MAXSIZE
        /\ result_queue' = Append(result_queue, DoneMsg)
     \/ /\ apc = "loop"
        /\ result_queue # << >>
        /\ result_queue' = Tail(result_queue)
  /\ \A w \in Workers :
       (wpc[w] = "put_files" /\ Len(result_queue) >= RESULT_MAXSIZE) =>
          /\ wpc'[w] = "put_files"
          /\ wdir'[w] = wdir[w]
          /\ wfiles'[w] = wfiles[w]
          /\ wsubs'[w] = wsubs[w]
          /\ msg_count' = msg_count

\* C17: the result channel holds at most its capacity of undelivered
\* messages; a worker that publishes into the full channel blocks until
\* the writer receives a message; no message is dropped because the
\* channel is full.
Backpressure == []ChannelBounded /\ [][ChannelStep]_vars

BackpressureWitness ==
  /\ Len(result_queue) = RESULT_MAXSIZE
  /\ \E w \in Workers : wpc[w] = "put_files"
  /\ apc = "loop"

\* The writer's positions follow connect, loop, final, exited within a run,
\* so the preparation (the step from connect to loop) is taken once.
PrepareOnce ==
  /\ (apc' = "connect" /\ apc # "connect") =>
        (apc = "idle" /\ cpc = "start_writer")
  /\ (apc' = "loop" /\ apc # "loop") => apc = "connect"
  /\ (apc' = "final" /\ apc # "final") => apc = "loop"
  /\ (apc' = "exited" /\ apc # "exited") => apc = "final"
  /\ (apc' = "idle" /\ apc # "idle") => run' = run + 1

\* The preparation drops the table exactly when drop_existing is set, and
\* no record has been inserted in this run before it.
PrepareStep ==
  (apc = "connect" /\ apc' = "loop") =>
     /\ table' = (IF drop_existing THEN {} ELSE table)
     /\ inserted = EmptyBag
     /\ inserted' = EmptyBag

\* The table changes only in the preparation and in the two flushes of the
\* writer; a row leaves the table only in the preparation; records are
\* passed to a bulk insert only after the preparation.
OnlyWriterMutates ==
  /\ table' # table =>
        \/ apc = "connect" /\ apc' = "loop"
        \/ apc = "loop" /\ apc' = "loop" /\ inserted' # inserted
        \/ apc = "final" /\ apc' = "exited"
  /\ ~(table \subseteq table') =>
        (apc = "connect" /\ apc' = "loop" /\ drop_existing)
  /\ (inserted' # inserted /\ run' = run) => apc \in {"loop", "final"}

\* C18: in every run the table is prepared once, before the first bulk
\* insert, and never again; only the writer modifies the table; so with
\* drop_existing no row inserted during the run is removed by the drop.
SingleMutator == [][PrepareOnce /\ PrepareStep /\ OnlyWriterMutates]_vars

SingleMutatorWitness ==
  /\ run = 2
  /\ drop_existing
  /\ apc = "exited"
  /\ prev_table # {}
  /\ table # {}
  /\ BagCardinality(inserted) >= 2

====
